---- MODULE Spec2Model ----
(***************************************************************************)
(* The exclusion engine and the coverage reducer of cov/excludes.py, the    *)
(* aggregator of cov/base.py, the adapters of cov/tools and the run of      *)
(* cov/main.py.                                                            *)
(*                                                                         *)
(* A source text is the list of pieces read_text().split("\n") gives; a    *)
(* piece is described by what the five compiled patterns find in it.       *)
(***************************************************************************)
EXTENDS Integers, Sequences, FiniteSets, TLC

VARIABLES
    pc,               \* where the run stands
    src,              \* the pieces of the source text handed to on_line so far
    builder,          \* the excludes object
    excluded_blocks,  \* the block list handed to erase_lines
    empties,          \* the blank-line set handed to erase_lines
    line_count,       \* the declared line count handed to clean_file_report
    lines0,           \* the accumulated line map as the reducer received it
    lines,            \* the line map, which erase_lines changes in place
    functions,        \* the accumulated function map
    totals,           \* the coverage_stats object
    report,           \* what clean_file_report returned
    aggregate,        \* the contributions and the accumulators of append_as
    sweep,            \* the frame of the _line_coverage_iterator generator
    summary,          \* a stats object and the percent read from it
    parser,           \* an adapter's stats() call on one intermediate file
    run               \* the external tools, the parses and the output of tool()

vars ==
    <<pc, src, builder, excluded_blocks, empties, line_count, lines0, lines,
      functions, totals, report, aggregate, sweep, summary, parser, run>>

\* ------------------------------------------------------------------ bounds

\* pieces of one source text fed to the scan
MaxLines == 5
\* highest line number of an accumulated line map
MaxKey == 2
\* blocks kept by a directly driven excludes object
MaxBlocks == 3

\* ------------------------------------------------------------ source texts

\* str.lower() on the tag spellings
lower(s) ==
    CASE s = "WIN32" -> "win32"
      [] s = "Win32" -> "win32"
      [] OTHER -> s

\* str.strip() on the tag spellings
strip(s) == IF s = " win32" THEN "win32" ELSE s

RECURSIVE map_lower(_)
map_lower(ms) ==
    IF ms = <<>> THEN <<>> ELSE <<lower(Head(ms))>> \o map_lower(Tail(ms))

\* A piece of text: whether text.strip() is empty, which of the markers
\* START, STOP, LINE, END occur in it, and the comma separated list inside
\* the brackets that follow a START or LINE marker (<<>>: no brackets).
Piece(blank, found, tags) == [blank |-> blank, found |-> found, tags |-> tags]

Blank == Piece(TRUE, {}, <<>>)
Code == Piece(FALSE, {}, <<>>)
Start == Piece(FALSE, {"START"}, <<>>)
Stop == Piece(FALSE, {"STOP"}, <<>>)
Line == Piece(FALSE, {"LINE"}, <<>>)
End == Piece(FALSE, {"END"}, <<>>)
LineWin == Piece(FALSE, {"LINE"}, <<"posix", "WIN32">>)
LinePosix == Piece(FALSE, {"LINE"}, <<"posix">>)
StartWin == Piece(FALSE, {"START"}, <<" win32">>)

Texts == {Blank, Code, Start, Stop, Line, End, LineWin, LinePosix, StartWin}

\* the tag lists a caller passes as markers
MarkerLists == {<<>>, <<"Win32">>}

\* --------------------------------------------------------------- patterns

\* number of capture groups of MATCHES_TAGS and of MATCHES_START
TagsGroups == 1
StartGroups == 0

NoMatch == [found |-> FALSE, groups |-> 0]

matches_tags(text) ==
    IF text.tags # <<>> /\ text.found \cap {"START", "LINE"} # {}
    THEN [found |-> TRUE, groups |-> TagsGroups]
    ELSE NoMatch

matches_line(text) ==
    IF "LINE" \in text.found THEN [found |-> TRUE, groups |-> 0] ELSE NoMatch

matches_start(text) ==
    IF "START" \in text.found
    THEN [found |-> TRUE, groups |-> StartGroups]
    ELSE NoMatch

matches_stop(text) ==
    IF "STOP" \in text.found THEN [found |-> TRUE, groups |-> 0] ELSE NoMatch

matches_end(text) ==
    IF "END" \in text.found THEN [found |-> TRUE, groups |-> 0] ELSE NoMatch

\* ------------------------------------------------------- class excludes

\* excludes(path, markers): the dataclass defaults, markers lower-cased by
\* __post_init__; stderr collects what message() prints.
new_excludes(markers) ==
    [markers |-> map_lower(markers),
     inside_exclude |-> FALSE,
     last_start |-> [line_no |-> 0],
     single_lines |-> <<>>,
     result |-> <<>>,
     empties |-> {},
     stderr |-> <<>>]

message(b, line_no, tag, what) ==
    [b EXCEPT !.stderr = Append(@, [tag |-> tag, line_no |-> line_no, what |-> what])]

warn(b, line_no, what) == message(b, line_no, "warning", what)

note(b, line_no, what) == message(b, line_no, "note", what)

\* a block list with its adjacent-line merge left out
exclude_never_merges(b, line_no) ==
    [b EXCEPT !.result = Append(@, [start |-> line_no, end |-> line_no]),
              !.single_lines = <<>>]

exclude(b, line_no) ==
    IF b.result # <<>> /\ b.result[Len(b.result)].end + 1 = line_no
    THEN [b EXCEPT !.result[Len(b.result)].end = line_no]
    ELSE [b EXCEPT !.result = Append(@, [start |-> line_no, end |-> line_no]),
                   !.single_lines = <<>>]

RECURSIVE pop_blocks(_, _)
pop_blocks(result, line_no) ==
    IF result # <<>> /\ result[Len(result)].start >= line_no
    THEN pop_blocks(SubSeq(result, 1, Len(result) - 1), line_no)
    ELSE result

RECURSIVE exclude_each(_, _)
exclude_each(b, ls) ==
    IF ls = <<>> THEN b ELSE exclude_each(exclude(b, Head(ls)), Tail(ls))

include_back(b, line_no) ==
    exclude_each([b EXCEPT !.result = pop_blocks(@, line_no)], b.single_lines)

\* what a method call leaves: the object, and the exception it raised
Returns(b) == [obj |-> b, exc |-> "none"]
Raises(b, exc) == [obj |-> b, exc |-> exc]

\* the for loop over the split tag list
RECURSIVE has_any_marker(_, _)
has_any_marker(tags, markers) ==
    IF tags = <<>> THEN FALSE
    ELSE IF \E i \in 1..Len(markers) : markers[i] = strip(lower(Head(tags)))
         THEN TRUE
         ELSE has_any_marker(Tail(tags), markers)

\* the marker chain, the exclusion of the line and the deferred STOP
on_line_markers(b, line_no, text) ==
    LET switch_off == matches_stop(text).found
        end_match == matches_end(text)
        start_match == matches_start(text)
        is_matching_line ==
            /\ ~switch_off
            /\ ~end_match.found
            /\ ~start_match.found
            /\ matches_line(text).found
        b1 == IF switch_off THEN b
              ELSE IF end_match.found
              THEN IF b.inside_exclude
                   THEN warn(b, line_no, "did you mean STOP")
                   ELSE b
              ELSE IF start_match.found
              THEN LET rolled ==
                          IF b.inside_exclude
                          THEN include_back(
                                   note(warn(b, line_no, "double start"),
                                        b.last_start.line_no,
                                        "see previous start"),
                                   b.last_start.line_no)
                          ELSE b
                   IN [rolled EXCEPT !.last_start = [line_no |-> line_no],
                                     !.inside_exclude = TRUE]
              ELSE IF is_matching_line
              THEN [b EXCEPT !.single_lines = Append(@, line_no)]
              ELSE b
        b2 == IF b1.inside_exclude \/ is_matching_line
              THEN exclude(b1, line_no)
              ELSE b1
    IN IF switch_off THEN [b2 EXCEPT !.inside_exclude = FALSE] ELSE b2

\* on_line with a blank line that also empties the single-line buffer
on_line_blank_clears_buffer(b, line_no, text) ==
    IF text.blank
    THEN Returns([b EXCEPT !.empties = @ \cup {line_no},
                           !.single_lines = <<>>])
    ELSE LET has_tags == matches_start(text)
         IN IF has_tags.found /\ has_tags.groups < 1
            THEN Raises(b, "IndexError")
            ELSE IF has_tags.found /\ ~has_any_marker(text.tags, b.markers)
            THEN Returns(b)
            ELSE Returns(on_line_markers(b, line_no, text))

on_line(b, line_no, text) ==
    IF text.blank
    THEN Returns([b EXCEPT !.empties = @ \cup {line_no}])
    ELSE LET has_tags == matches_start(text)
         IN IF has_tags.found /\ has_tags.groups < 1
            THEN Raises(b, "IndexError")
            ELSE IF has_tags.found /\ ~has_any_marker(text.tags, b.markers)
            THEN Returns(b)
            ELSE Returns(on_line_markers(b, line_no, text))

after_lines(b) ==
    IF ~b.inside_exclude
    THEN b
    ELSE include_back(warn(b, b.last_start.line_no, "not matched with STOP"),
                      b.last_start.line_no)

\* first number enumerate() hands out in find_excl_blocks
EnumerateStart == 0

\* ------------------------------------------------- coverage reducer

\* the value of an index of the coverage array that holds no hit count
None == -1

new_stats == [relevant |-> 0, covered |-> 0, excluded |-> 0]

new_coverage_stats == [lines |-> new_stats, functions |-> new_stats]

EmptyMap == [k \in {} |-> 0]

\* del lines[line_no]
del(ls, line_no) == [k \in DOMAIN ls \ {line_no} |-> ls[k]]

\* a counter that also counts hard removals of lines the map does not hold
_erase_line_counts_absent(acc, line_no, hard_remove) ==
    IF hard_remove \/ (line_no \in DOMAIN acc.lines /\ acc.lines[line_no] = 0)
    THEN [stats |-> [acc.stats EXCEPT !.lines.excluded = @ + 1],
          lines |-> del(acc.lines, line_no)]
    ELSE acc

\* acc is the pair the method works on: the coverage_stats object and the
\* line map
_erase_line(acc, line_no, hard_remove) ==
    IF line_no \in DOMAIN acc.lines /\ (hard_remove \/ acc.lines[line_no] = 0)
    THEN [stats |-> [acc.stats EXCEPT !.lines.excluded = @ + 1],
          lines |-> del(acc.lines, line_no)]
    ELSE acc

\* a loop over the blocks that removes as the loop over blank lines does
RECURSIVE erase_range_soft(_, _, _)
erase_range_soft(acc, line_no, end) ==
    IF line_no > end THEN acc
    ELSE erase_range_soft(_erase_line(acc, line_no, FALSE), line_no + 1, end)

RECURSIVE erase_range(_, _, _)
erase_range(acc, line_no, end) ==
    IF line_no > end THEN acc
    ELSE erase_range(_erase_line(acc, line_no, TRUE), line_no + 1, end)

RECURSIVE erase_blocks(_, _)
erase_blocks(acc, blocks) ==
    IF blocks = <<>> THEN acc
    ELSE erase_blocks(erase_range(acc, Head(blocks).start, Head(blocks).end),
                      Tail(blocks))

\* a loop over the blank lines that removes as the loop over the blocks does
RECURSIVE erase_empties_hard(_, _)
erase_empties_hard(acc, es) ==
    IF es = {} THEN acc
    ELSE LET line_no == CHOOSE e \in es : TRUE
         IN erase_empties_hard(_erase_line(acc, line_no, TRUE), es \ {line_no})

\* the loop over the set of blank lines, in the order the set gives them
RECURSIVE erase_empties(_, _)
erase_empties(acc, es) ==
    IF es = {} THEN acc
    ELSE LET line_no == CHOOSE e \in es : TRUE
         IN erase_empties(_erase_line(acc, line_no, FALSE), es \ {line_no})

erase_lines(cs, ls, blocks, es) ==
    erase_empties(erase_blocks([stats |-> cs, lines |-> ls], blocks), es)

\* fn.get("end_line", start_line)
fn_end_line(fn) ==
    IF "end_line" \in DOMAIN fn THEN fn.end_line ELSE fn.start_line

\* a span that leaves its last line out
fn_excluded_open_end(ls, fn) ==
    ~\E line \in fn.start_line..(fn_end_line(fn) - 1) : line \in DOMAIN ls

\* the inner loop of _clean_functions: fn_set is the empty set
fn_excluded(ls, fn) ==
    LET fn_set == {}
    IN ~\E line \in fn.start_line..fn_end_line(fn) :
            line \in DOMAIN ls /\ line \notin fn_set

RECURSIVE clean_each(_, _, _, _)
clean_each(ls, fns, keys, acc) ==
    IF keys = {} THEN acc
    ELSE LET key == CHOOSE k \in keys : TRUE
         IN clean_each(ls, fns, keys \ {key},
                IF ~fn_excluded(ls, fns[key])
                THEN [acc EXCEPT !.cleaned = @ \cup {key}]
                ELSE [acc EXCEPT !.counter = @ + 1])

_clean_functions(ls, fns) ==
    LET r == clean_each(ls, fns, DOMAIN fns, [cleaned |-> {}, counter |-> 0])
    IN [cleaned |-> [key \in r.cleaned |-> fns[key]], counter |-> r.counter]

\* the function names, in sorted() order
FnOrder == <<"f", "g">>

FnNames == {FnOrder[i] : i \in 1..Len(FnOrder)}

RECURSIVE sorted_values(_, _)
sorted_values(fns, order) ==
    IF order = <<>> THEN <<>>
    ELSE (IF Head(order) \in DOMAIN fns THEN <<fns[Head(order)]>> ELSE <<>>)
         \o sorted_values(fns, Tail(order))

Max(S) == CHOOSE m \in S : \A x \in S : x <= m

\* line totals that take every remaining line for a covered one
line_totals_all_covered(st, ls) ==
    [st EXCEPT !.relevant = @ + Cardinality(DOMAIN ls),
               !.covered = @ + Cardinality(DOMAIN ls)]

\* relevant += len(lines), and covered += 1 for every truthy value
line_totals(st, ls) ==
    [st EXCEPT !.relevant = @ + Cardinality(DOMAIN ls),
               !.covered = @ + Cardinality({k \in DOMAIN ls : ls[k] # 0})]

clean_file_report(cs, count, ls, fns) ==
    LET cf == _clean_functions(ls, fns)
        kept == cf.cleaned
        size == IF DOMAIN ls # {} THEN Max({count} \cup DOMAIN ls) ELSE 0
        cvg == [i \in 1..size |-> IF i \in DOMAIN ls THEN ls[i] ELSE None]
        fstats ==
            [relevant |-> cs.functions.relevant + Cardinality(DOMAIN kept),
             covered |-> cs.functions.covered
                         + Cardinality({k \in DOMAIN kept : kept[k].count # 0}),
             excluded |-> cs.functions.excluded + cf.counter]
        lstats == line_totals(cs.lines, ls)
    IN [stats |-> [lines |-> lstats, functions |-> fstats],
        report |-> [coverage |-> cvg, functions |-> sorted_values(kept, FnOrder)]]

NoReport == [coverage |-> <<>>, functions |-> <<>>]

\* ------------------------------------------------- find_excl_blocks

reducer_vars ==
    <<excluded_blocks, empties, line_count, lines0, lines, functions, totals,
      report>>

ReducerIdle ==
    /\ excluded_blocks = <<>>
    /\ empties = {}
    /\ line_count = 0
    /\ lines0 = EmptyMap
    /\ lines = EmptyMap
    /\ functions = EmptyMap
    /\ totals = new_coverage_stats
    /\ report = NoReport

\* the variables of the aggregator, the adapters and the run
tools_vars == <<aggregate, sweep, summary, parser, run>>

Idle == <<>>

ToolsIdle ==
    /\ aggregate = Idle
    /\ sweep = Idle
    /\ summary = Idle
    /\ parser = Idle
    /\ run = Idle

Init ==
    /\ pc = "scan"
    /\ src = <<>>
    /\ \E markers \in MarkerLists : builder = new_excludes(markers)
    /\ ReducerIdle
    /\ ToolsIdle

\* one turn of the loop over enumerate(read_text().split("\n"))
find_excl_blocks_line ==
    /\ pc = "scan"
    /\ Len(src) < MaxLines
    /\ \E text \in Texts :
          LET r == on_line(builder, EnumerateStart + Len(src), text)
          IN /\ src' = Append(src, text)
             /\ builder' = r.obj
             /\ pc' = IF r.exc = "none" THEN "scan" ELSE r.exc
    /\ UNCHANGED <<reducer_vars, tools_vars>>

\* the text is used up: after_lines, then the return
find_excl_blocks_return ==
    /\ pc = "scan"
    /\ Len(src) >= 1
    /\ builder' = after_lines(builder)
    /\ pc' = "returned"
    /\ UNCHANGED <<src, reducer_vars, tools_vars>>

\* read_text() raises FileNotFoundError, which is swallowed
find_excl_blocks_missing ==
    /\ pc = "scan"
    /\ src = <<>>
    /\ pc' = "returned"
    /\ UNCHANGED <<src, builder, reducer_vars, tools_vars>>

Next ==
    \/ find_excl_blocks_line
    \/ find_excl_blocks_return
    \/ find_excl_blocks_missing

Spec == Init /\ [][Next]_vars

\* ------------------------------------------------- the reducer's run

\* hit counts and execution counts of the accumulated maps
Counts == {0, 5}

Keys == 1..MaxKey

LineMaps == UNION {[S -> Counts] : S \in SUBSET Keys}

Blocks == UNION {{[start |-> s, end |-> e] : e \in s..MaxKey} : s \in Keys}

\* block lists of at most two blocks, coalesced or not
BlockLists ==
    {<<>>} \cup {<<a>> : a \in Blocks} \cup {<<a, b>> : a \in Blocks, b \in Blocks}

\* the records append_as builds: end_line is there only when a tool gave it
FnRecords(name) ==
    {[name |-> name, count |-> c, start_line |-> s] : c \in Counts, s \in Keys}
    \cup {[name |-> name, count |-> c, start_line |-> s, end_line |-> e] :
            c \in Counts, s \in Keys, e \in Keys}

FnMaps(S) == {fns \in [S -> UNION {FnRecords(n) : n \in S}] :
                \A n \in S : fns[n].name = n}

\* Either the exclusions vary, with at most one function, which was
\* executed, or the function map and the declared line count vary, with
\* nothing excluded.
InitReduce ==
    /\ pc = "handed"
    /\ src = <<>>
    /\ builder = new_excludes(<<>>)
    /\ lines0 \in LineMaps
    /\ lines = lines0
    /\ totals = new_coverage_stats
    /\ report = NoReport
    /\ \/ /\ excluded_blocks \in BlockLists
          /\ empties \in SUBSET Keys
          /\ functions \in FnMaps({})
                \cup {fns \in FnMaps({"f"}) : fns["f"].count # 0}
          /\ line_count = MaxKey
       \/ /\ excluded_blocks = <<>>
          /\ empties = {}
          /\ functions \in UNION {FnMaps(S) : S \in SUBSET FnNames}
          /\ line_count \in 0..MaxKey
    /\ ToolsIdle

reducer_args == <<src, builder, excluded_blocks, empties, line_count, lines0, functions>>

erase_lines_call ==
    /\ pc = "handed"
    /\ LET r == erase_lines(totals, lines, excluded_blocks, empties)
       IN /\ lines' = r.lines
          /\ totals' = r.stats
    /\ pc' = "erased"
    /\ UNCHANGED <<reducer_args, report, tools_vars>>

\* erase_lines applied a second time to the same map and blocks
erase_lines_again ==
    /\ pc = "erased"
    /\ LET r == erase_lines(totals, lines, excluded_blocks, empties)
       IN /\ lines' = r.lines
          /\ totals' = r.stats
    /\ pc' = "erased again"
    /\ UNCHANGED <<reducer_args, report, tools_vars>>

clean_file_report_call ==
    /\ pc \in {"erased", "erased again"}
    /\ LET r == clean_file_report(totals, line_count, lines, functions)
       IN /\ totals' = r.stats
          /\ report' = r.report
    /\ pc' = "cleaned"
    /\ UNCHANGED <<reducer_args, lines, tools_vars>>

NextReduce ==
    \/ erase_lines_call
    \/ erase_lines_again
    \/ clean_file_report_call

SpecReduce == InitReduce /\ [][NextReduce]_vars

\* ------------------------------------- an excludes object driven directly

InitExclude ==
    /\ pc = "driven"
    /\ src = <<>>
    /\ builder = new_excludes(<<>>)
    /\ ReducerIdle
    /\ ToolsIdle

exclude_call ==
    /\ pc = "driven"
    /\ Len(builder.result) < MaxBlocks
    /\ \E line_no \in 0..MaxKey : builder' = exclude(builder, line_no)
    /\ UNCHANGED <<pc, src, reducer_vars, tools_vars>>

NextExclude == exclude_call

SpecExclude == InitExclude /\ [][NextExclude]_vars

\* ------------------------------------------------------ the aggregator

\* None, where the code expects a string
NoneStr == "None"

LineDecl(number, count, unexecuted_block) ==
    [number |-> number, count |-> count, unexecuted_block |-> unexecuted_block]

FunctionDecl(start_line, end_line, start_column, end_column, execution_count, name, demangled_name) ==
    [start_line |-> start_line, end_line |-> end_line,
     start_column |-> start_column, end_column |-> end_column,
     execution_count |-> execution_count, name |-> name,
     demangled_name |-> demangled_name]

FileInfo(fns, ls) == [functions |-> fns, lines |-> ls]

\* src, which main.py hands over as full_path beside name
FullPath(name) == <<"src_dir", name>>

\* the two dictionaries append_as fills
NoCoverage == [coverage |-> EmptyMap, paths |-> EmptyMap]

\* if name not in coverage: coverage[name] = [{}, {}]; paths[name] = full_path
new_name(acc, name, full_path) ==
    IF name \in DOMAIN acc.coverage THEN acc
    ELSE [coverage |-> (name :> <<EmptyMap, EmptyMap>>) @@ acc.coverage,
          paths |-> (name :> full_path) @@ acc.paths]

\* a line loop that stores the count it was given last
append_line_last_wins(acc, name, full_path, line) ==
    LET a1 == new_name(acc, name, full_path)
    IN [a1 EXCEPT !.coverage[name][1] = (line.number :> line.count) @@ @]

\* one turn of the loop over self.lines
append_line(acc, name, full_path, line) ==
    LET a1 == new_name(acc, name, full_path)
        ls == a1.coverage[name][1]
        old == IF line.number \in DOMAIN ls THEN ls[line.number] ELSE 0
    IN [a1 EXCEPT !.coverage[name][1] = (line.number :> old + line.count) @@ ls]

\* if value is not None: record[key_name] = value
set_unless_none(rec, key_name, value, none) ==
    IF value = none THEN rec ELSE (key_name :> value) @@ rec

\* one turn of the loop over self.functions
append_function(acc, name, full_path, function) ==
    IF \/ function.start_line = None
       \/ function.name = NoneStr
       \/ function.execution_count = None
    THEN acc
    ELSE LET a1 == new_name(acc, name, full_path)
             fns == a1.coverage[name][2]
             rec0 == IF function.name \in DOMAIN fns
                     THEN fns[function.name]
                     ELSE [name |-> function.name, count |-> 0]
             rec1 == ("count" :> rec0.count + function.execution_count)
                     @@ ("start_line" :> function.start_line) @@ rec0
             rec2 == set_unless_none(rec1, "end_line", function.end_line, None)
             rec3 == set_unless_none(rec2, "start_column",
                                     function.start_column, None)
             rec4 == set_unless_none(rec3, "end_column",
                                     function.end_column, None)
             rec5 == set_unless_none(rec4, "demangled",
                                     function.demangled_name, NoneStr)
         IN [a1 EXCEPT !.coverage[name][2] = (function.name :> rec5) @@ fns]

RECURSIVE append_lines(_, _, _, _)
append_lines(acc, name, full_path, ls) ==
    IF ls = <<>> THEN acc
    ELSE append_lines(append_line(acc, name, full_path, Head(ls)),
                      name, full_path, Tail(ls))

RECURSIVE append_functions(_, _, _, _)
append_functions(acc, name, full_path, fns) ==
    IF fns = <<>> THEN acc
    ELSE append_functions(append_function(acc, name, full_path, Head(fns)),
                          name, full_path, Tail(fns))

\* info.append_as(name, full_path, coverage=coverage, paths=paths)
append_as(info, name, full_path, acc) ==
    append_functions(append_lines(acc, name, full_path, info.lines),
                     name, full_path, info.functions)

\* ------------------------------------------- the aggregator's run

\* (path, FileInfo) pairs the loop over the intermediate files folds
MaxFiles == 3

Names == {"a.cpp", "b.cpp"}

\* the lines of one FileInfo
LineLists ==
    {<<>>,
     <<LineDecl(1, 1, FALSE)>>,
     <<LineDecl(1, 5, FALSE)>>,
     <<LineDecl(2, 1, FALSE)>>,
     <<LineDecl(1, 1, FALSE), LineDecl(1, 5, FALSE)>>,
     <<LineDecl(1, 5, FALSE), LineDecl(2, 1, FALSE)>>}

\* FunctionDecl as the adapters build them: the text counter format gives
\* every number and columns 0, the JSON format gives what the tool wrote,
\* the segment export gives all positions
FunctionDecls ==
    {FunctionDecl(s, e, None, None, 1, "f", NoneStr) :
        s \in {1, 2}, e \in {None, 2}}
    \cup {FunctionDecl(s, 2, 3, 9, 5, "f", "f()") : s \in {1, 2}}
    \cup {FunctionDecl(1, 1, 0, 0, 1, "g", NoneStr),
          FunctionDecl(None, 2, None, None, 1, "f", NoneStr),
          FunctionDecl(1, 2, None, None, None, "f", NoneStr),
          FunctionDecl(1, 2, None, None, 1, NoneStr, NoneStr)}

Contribution(name, info) == [name |-> name, info |-> info]

LineContributions ==
    {Contribution(n, FileInfo(<<>>, ls)) : n \in Names, ls \in LineLists}

FunctionContributions ==
    {Contribution("a.cpp", FileInfo(<<fn>>, <<>>)) : fn \in FunctionDecls}
    \cup {Contribution("a.cpp", FileInfo(<<>>, <<>>)),
          Contribution("b.cpp", FileInfo(<<FunctionDecl(2, 2, 0, 0, 5, "f", NoneStr)>>,
                                         <<LineDecl(2, 5, FALSE)>>))}

ExcludesIdle ==
    /\ src = <<>>
    /\ builder = new_excludes(<<>>)
    /\ ReducerIdle

\* The contributions in the order recurse() and data.items() give them:
\* either their lines vary, or their functions do.
InitAggregate ==
    /\ pc = "aggregate"
    /\ ExcludesIdle
    /\ \E n \in 0..MaxFiles :
          \E infos \in [1..n -> LineContributions]
                       \cup [1..n -> FunctionContributions] :
              aggregate = [infos |-> infos, folded |-> 0,
                           coverage |-> NoCoverage.coverage,
                           paths |-> NoCoverage.paths]
    /\ sweep = Idle
    /\ summary = Idle
    /\ parser = Idle
    /\ run = Idle

\* one turn of the loop of main.py that folds a (path, FileInfo) pair
append_as_call ==
    /\ pc = "aggregate"
    /\ aggregate.folded < Len(aggregate.infos)
    /\ LET c == aggregate.infos[aggregate.folded + 1]
           r == append_as(c.info, c.name, FullPath(c.name),
                          [coverage |-> aggregate.coverage,
                           paths |-> aggregate.paths])
       IN aggregate' = [aggregate EXCEPT !.folded = @ + 1,
                                         !.coverage = r.coverage,
                                         !.paths = r.paths]
    /\ UNCHANGED <<pc, src, builder, reducer_vars, sweep, summary, parser, run>>

\* the loop over the intermediate files is over
recurse_exhausted ==
    /\ pc = "aggregate"
    /\ aggregate.folded = Len(aggregate.infos)
    /\ pc' = "aggregated"
    /\ UNCHANGED <<src, builder, reducer_vars, tools_vars>>

NextAggregate ==
    \/ append_as_call
    \/ recurse_exhausted

SpecAggregate == InitAggregate /\ [][NextAggregate]_vars

\* ------------------------------------------- the line-coverage sweep

CoverageSegment(line, column, count, has_count, is_entry, is_gap) ==
    [line |-> line, column |-> column, count |-> count,
     has_count |-> has_count, is_entry |-> is_entry, is_gap |-> is_gap]

\* LCS(line): execution_count is None until the line is found mapped
LCS(line, execution_count) == [line |-> line, execution_count |-> execution_count]

_is_start_of_region(segment) ==
    ~segment.is_gap /\ segment.has_count /\ segment.is_entry

\* the first loop of _line_coverage_stats, with its break
RECURSIVE count_regions(_, _)
count_regions(line_segments, min_region_count) ==
    IF line_segments = <<>> \/ min_region_count > 1 THEN min_region_count
    ELSE count_regions(Tail(line_segments),
                       IF _is_start_of_region(Head(line_segments))
                       THEN min_region_count + 1
                       ELSE min_region_count)

\* the second loop: max(result.execution_count, segment.count), which
\* raises TypeError when execution_count is still None
RECURSIVE max_counts(_, _)
max_counts(line_segments, result) ==
    IF line_segments = <<>> THEN Returns(result)
    ELSE IF ~_is_start_of_region(Head(line_segments))
    THEN max_counts(Tail(line_segments), result)
    ELSE IF result.execution_count = None
    THEN Raises(result, "TypeError")
    ELSE max_counts(Tail(line_segments),
                    [result EXCEPT !.execution_count =
                        IF Head(line_segments).count > @
                        THEN Head(line_segments).count ELSE @])

\* the rule with a skipped region starting at a first segment without count
_line_coverage_stats_uncounted_first(line_segments, wrapped_segment, line) ==
    LET result == LCS(line, None)
        min_region_count == count_regions(line_segments, 0)
        start_of_skipped_region ==
            /\ Len(line_segments) > 0
            /\ ~line_segments[1].has_count
            /\ line_segments[1].is_entry
        mapped ==
            /\ ~start_of_skipped_region
            /\ \/ wrapped_segment # <<>> /\ wrapped_segment[1].has_count
               \/ min_region_count > 0
    IN IF ~mapped THEN Returns(result)
       ELSE max_counts(line_segments,
                       IF wrapped_segment # <<>>
                       THEN LCS(line, wrapped_segment[1].count)
                       ELSE result)

\* wrapped_segment is a list of no segment (None) or of one
_line_coverage_stats(line_segments, wrapped_segment, line) ==
    LET result == LCS(line, None)
        min_region_count == count_regions(line_segments, 0)
        start_of_skipped_region ==
            /\ Len(line_segments) > 0
            /\ line_segments[1].has_count
            /\ line_segments[1].is_entry
        mapped ==
            /\ ~start_of_skipped_region
            /\ \/ wrapped_segment # <<>> /\ wrapped_segment[1].has_count
               \/ min_region_count > 0
    IN IF ~mapped THEN Returns(result)
       ELSE max_counts(line_segments,
                       IF wrapped_segment # <<>>
                       THEN LCS(line, wrapped_segment[1].count)
                       ELSE result)

\* the inner while loop: the segments of the current line
RECURSIVE take_line(_, _, _)
take_line(coverage, index, line) ==
    IF index < Len(coverage) /\ coverage[index + 1].line = line
    THEN <<coverage[index + 1]>> \o take_line(coverage, index + 1, line)
    ELSE <<>>

\* the generator's frame before its first resumption
_line_coverage_iterator(coverage) ==
    [coverage |-> coverage,
     wrapped |-> <<>>,
     line |-> IF Len(coverage) > 0 THEN coverage[1].line ELSE 0,
     segments |-> <<>>,
     index |-> 0,
     yielded |-> <<>>]

\* segments of one intermediate file, and the lines they lie on
MaxSegments == 3
MaxSegmentLine == 4

SegmentsAt(line) ==
    {CoverageSegment(line, 1, 5, TRUE, TRUE, FALSE),
     CoverageSegment(line, 1, 0, TRUE, TRUE, FALSE),
     CoverageSegment(line, 1, 2, TRUE, FALSE, FALSE),
     CoverageSegment(line, 1, 0, FALSE, FALSE, FALSE),
     CoverageSegment(line, 1, 0, FALSE, TRUE, FALSE),
     CoverageSegment(line, 1, 3, TRUE, TRUE, TRUE)}

Segments == UNION {SegmentsAt(line) : line \in 1..MaxSegmentLine}

OrderedByLine(coverage) ==
    \A i \in 1..(Len(coverage) - 1) : coverage[i].line <= coverage[i + 1].line

\* the segment lists of an export: llvm-cov lists the segments of a file in
\* the order of their lines, the sweep takes whatever list the file holds;
\* the lists out of order are drawn one segment shorter than the ordered
SegmentLists ==
    {coverage \in UNION {[1..n -> Segments] : n \in 0..MaxSegments} :
        OrderedByLine(coverage) \/ Len(coverage) < MaxSegments}

\* the sweep is followed up to this line
MaxSweepLine == 6

\* the body of the loop in LLVM.stats that consumes the sweep
LLVM_stats_line(decls, stats) ==
    IF stats.execution_count = None THEN decls
    ELSE Append(decls, LineDecl(stats.line, stats.execution_count, None))

InitSweep ==
    /\ pc = "sweep"
    /\ ExcludesIdle
    /\ \E coverage \in SegmentLists :
          sweep = [lines |-> <<>>] @@ _line_coverage_iterator(coverage)
    /\ aggregate = Idle
    /\ summary = Idle
    /\ parser = Idle
    /\ run = Idle

\* the generator is resumed and runs to its next yield, which the loop of
\* LLVM.stats consumes, or to the exception that _line_coverage_stats raises
_line_coverage_iterator_next ==
    /\ pc = "sweep"
    /\ sweep.index < Len(sweep.coverage)
    /\ sweep.line <= MaxSweepLine
    /\ LET wrapped == IF Len(sweep.segments) > 0
                      THEN <<sweep.segments[Len(sweep.segments)]>>
                      ELSE sweep.wrapped
           segments == take_line(sweep.coverage, sweep.index, sweep.line)
           r == _line_coverage_stats(segments, wrapped, sweep.line)
       IN IF r.exc = "none"
          THEN /\ sweep' = [sweep EXCEPT !.wrapped = wrapped,
                                         !.segments = segments,
                                         !.index = @ + Len(segments),
                                         !.yielded = Append(@, r.obj),
                                         !.lines = LLVM_stats_line(@, r.obj),
                                         !.line = @ + 1]
               /\ pc' = "sweep"
          ELSE /\ sweep' = [sweep EXCEPT !.wrapped = wrapped,
                                         !.segments = segments,
                                         !.index = @ + Len(segments)]
               /\ pc' = r.exc
    /\ UNCHANGED <<src, builder, reducer_vars, aggregate, summary, parser, run>>

\* the generator is resumed with every segment consumed
_line_coverage_iterator_stop ==
    /\ pc = "sweep"
    /\ sweep.index >= Len(sweep.coverage)
    /\ pc' = "StopIteration"
    /\ UNCHANGED <<src, builder, reducer_vars, tools_vars>>

NextSweep ==
    \/ _line_coverage_iterator_next
    \/ _line_coverage_iterator_stop

SpecSweep == InitSweep /\ [][NextSweep]_vars

\* ------------------------------------------------------ stats.percent

\* the number n / 100, by its whole part and its two decimals
Hundredths(n) == [whole |-> n \div 100, decimals |-> n % 100]

\* a percent that drops the fraction instead of rounding it
percent_truncates(st) ==
    IF st.relevant # 0
    THEN Returns(Hundredths((st.covered * 10000) \div st.relevant))
    ELSE Returns(Hundredths(0))

\* int(x + 0.5) of the quotient x = covered * 10000 / relevant is the floor
\* of (2 * covered * 10000 + relevant) / (2 * relevant); the division is
\* only reached when relevant is truthy
percent(st) ==
    IF st.relevant # 0
    THEN Returns(Hundredths((2 * st.covered * 10000 + st.relevant)
                                \div (2 * st.relevant)))
    ELSE Returns(Hundredths(0))

\* the counters of a stats object
MaxRelevant == 32

NotRead == [whole |-> None, decimals |-> None]

InitPercent ==
    /\ pc = "counted"
    /\ ExcludesIdle
    /\ \E relevant \in 0..MaxRelevant :
          \E covered \in 0..relevant :
              summary = [stats |-> [relevant |-> relevant, covered |-> covered,
                                    excluded |-> 0],
                         percent |-> NotRead]
    /\ aggregate = Idle
    /\ sweep = Idle
    /\ parser = Idle
    /\ run = Idle

\* the property is read
percent_get ==
    /\ pc = "counted"
    /\ LET r == percent(summary.stats)
       IN /\ summary' = [summary EXCEPT !.percent = r.obj]
          /\ pc' = IF r.exc = "none" THEN "read" ELSE r.exc
    /\ UNCHANGED <<src, builder, reducer_vars, aggregate, sweep, parser, run>>

NextPercent == percent_get

SpecPercent == InitPercent /\ [][NextPercent]_vars

\* ------------------------------------------------ the adapters' stats

\* int() on the texts of the fields and attributes
int(text) ==
    CASE text = "0" -> Returns(0)
      [] text = "1" -> Returns(1)
      [] text = "2" -> Returns(2)
      [] text = "5" -> Returns(5)
      [] text = " 2" -> Returns(2)
      [] OTHER -> Raises(0, "ValueError")

\* A line of the text counter format: whether it holds a colon, what stands
\* before the first colon, and what split(",") makes of the rest.
Record(colon, tag, fields) == [colon |-> colon, tag |-> tag, fields |-> fields]

\* Path(...) made absolute: a relative name is resolved against bin_dir
resolve(name) == IF name = "b.cpp" THEN "/bin/b.cpp" ELSE name

\* the frame of GCOV8.stats before its loop
GCOV8_stats(intermediate_file) ==
    [tool |-> "GCOV8", input |-> intermediate_file, index |-> 0,
     result |-> EmptyMap, filename |-> NoneStr, file |-> <<>>, stdout |-> <<>>]

\* if file and filename: result[filename] = file
store_file(p) ==
    IF p.file # <<>> /\ p.filename # NoneStr
    THEN [p EXCEPT !.result = (p.filename :> p.file[1]) @@ @]
    ELSE p

\* one turn of the loop over the lines of the file. file is a list of no
\* FileInfo (None) or of one.
GCOV8_stats_on(p, line) ==
    IF ~line.colon THEN Returns(p)
    ELSE IF line.tag = "file"
    THEN Returns([store_file(p) EXCEPT !.filename = resolve(strip(line.fields[1])),
                                       !.file = <<FileInfo(<<>>, <<>>)>>])
    ELSE IF line.tag = "function"
    THEN IF Len(line.fields) # 4 THEN Raises(p, "ValueError")
         ELSE IF p.file = <<>> THEN Returns(p)
         ELSE LET start == int(line.fields[1])
                  stop == int(line.fields[2])
                  count == int(line.fields[3])
                  decl == FunctionDecl(start.obj, stop.obj, 0, 0, count.obj,
                                       strip(line.fields[4]), NoneStr)
              IN IF {start.exc, stop.exc, count.exc} # {"none"}
                 THEN Raises(p, "ValueError")
                 ELSE Returns([p EXCEPT !.file[1].functions = Append(@, decl),
                                        !.stdout = Append(@, decl)])
    ELSE IF line.tag = "lcount"
    THEN IF Len(line.fields) # 3 THEN Raises(p, "ValueError")
         ELSE IF p.file = <<>> THEN Returns(p)
         ELSE LET number == int(line.fields[1])
                  count == int(line.fields[2])
                  has_unexecuted == int(line.fields[3])
                  decl == LineDecl(number.obj, count.obj, has_unexecuted.obj # 0)
              IN IF {number.exc, count.exc, has_unexecuted.exc} # {"none"}
                 THEN Raises(p, "ValueError")
                 ELSE Returns([p EXCEPT !.file[1].lines = Append(@, decl)])
    ELSE Returns(p)

\* the frame of CoberturaXML.stats before the loops over the classes of the
\* tree; klass counts the classes taken up, input holds the line elements
\* of the class at hand
CoberturaXML_stats(classes) ==
    [tool |-> "CoberturaXML", classes |-> classes, klass |-> 0,
     input |-> <<>>, index |-> 0, result |-> EmptyMap,
     filename |-> NoneStr, raw_lines |-> <<>>]

\* the head of a turn of the loop over the classes: a class without a
\* filename attribute or without a lines element is passed over
cobertura_class(p, klass) ==
    IF "filename" \notin DOMAIN klass \/ "lines" \notin DOMAIN klass
    THEN [p EXCEPT !.klass = @ + 1, !.input = <<>>, !.index = 0,
                   !.raw_lines = <<>>]
    ELSE [p EXCEPT !.klass = @ + 1, !.filename = klass.filename,
                   !.input = klass.lines, !.index = 0, !.raw_lines = <<>>]

\* the body of the try: attrib is the dictionary of the line element
cobertura_line_decl(attrib) ==
    IF "number" \notin DOMAIN attrib THEN Raises(attrib, "KeyError")
    ELSE LET number == int(attrib.number)
         IN IF number.exc # "none" THEN Raises(attrib, number.exc)
            ELSE IF "hits" \notin DOMAIN attrib THEN Raises(attrib, "KeyError")
            ELSE LET hits == int(attrib.hits)
                 IN IF hits.exc # "none" THEN Raises(attrib, hits.exc)
                    ELSE Returns(LineDecl(number.obj, hits.obj, FALSE))

\* one turn of the loop over the line elements, with its except clauses
CoberturaXML_stats_on(p, attrib) ==
    LET r == cobertura_line_decl(attrib)
    IN IF r.exc \in {"KeyError", "ValueError"} THEN Returns(p)
       ELSE IF r.exc # "none" THEN Raises(p, r.exc)
       ELSE Returns([p EXCEPT !.raw_lines = Append(@, r.obj)])

\* the order of @dataclass(order=True): number, then count; unexecuted_block
\* is the same in all
LineDeclLess(a, b) ==
    a.number < b.number \/ (a.number = b.number /\ a.count < b.count)

RECURSIVE insert_sorted(_, _)
insert_sorted(decl, decls) ==
    IF decls = <<>> THEN <<decl>>
    ELSE IF LineDeclLess(decl, Head(decls)) THEN <<decl>> \o decls
    ELSE <<Head(decls)>> \o insert_sorted(decl, Tail(decls))

RECURSIVE sorted(_)
sorted(decls) ==
    IF decls = <<>> THEN <<>>
    ELSE insert_sorted(Head(decls), sorted(Tail(decls)))

\* a store that appends the lines to those the path already has
cobertura_store_adding(p) ==
    LET coverage == sorted(p.raw_lines)
    IN IF Len(coverage) = 0 THEN p
       ELSE IF p.filename \in DOMAIN p.result
       THEN [p EXCEPT !.result[p.filename].lines = @ \o coverage]
       ELSE [p EXCEPT !.result =
               (p.filename :> FileInfo(<<>>, coverage)) @@ @]

\* the tail of a turn of the loop over the classes: a class with no
\* LineDecl is skipped, any other is stored with its lines sorted
cobertura_store(p) ==
    LET coverage == sorted(p.raw_lines)
    IN IF Len(coverage) = 0 THEN p
       ELSE [p EXCEPT !.result =
               (p.filename :> FileInfo(<<>>, coverage)) @@ @]

\* ---------------------------------------------- the segment export

TextPos(line, col) == [line |-> line, col |-> col]

\* an order that looks at the line only
TextPos_lt_by_line(a, b) == a.line < b.line

\* the order of @dataclass(order=True): line, then col
TextPos_lt(a, b) == a.line < b.line \/ (a.line = b.line /\ a.col < b.col)

RegionRef(start, end) == [start |-> start, end |-> end]

FileRef(valid, start, end) == [valid |-> valid, start |-> start, end |-> end]

\* the loop over the regions; result is a list of no RegionRef (None) or of
\* one. region[5] and region[7] are the sixth and the eighth field.
RECURSIVE encompass(_, _)
encompass(regions, result) ==
    IF regions = <<>> THEN result
    ELSE LET region == Head(regions)
             start == TextPos(region[1], region[2])
             end == TextPos(region[3], region[4])
         IN IF Len(region) < 8 THEN encompass(Tail(regions), result)
            ELSE IF region[8] # 0 \/ region[6] # 0
            THEN encompass(Tail(regions), result)
            ELSE IF result = <<>>
            THEN encompass(Tail(regions), <<RegionRef(start, end)>>)
            ELSE encompass(
                     Tail(regions),
                     <<RegionRef(IF TextPos_lt(start, result[1].start)
                                 THEN start ELSE result[1].start,
                                 IF TextPos_lt(result[1].end, end)
                                 THEN end ELSE result[1].end)>>)

_function_encompassing_region(regions) ==
    LET result == encompass(regions, <<>>)
    IN IF result # <<>> THEN FileRef(TRUE, result[1].start, result[1].end)
       ELSE FileRef(FALSE, TextPos(0, 0), TextPos(0, 0))

\* the loop of LLVM.stats over the sweep of one file's segments: f is the
\* generator's frame, decls the list of LineDecl
RECURSIVE LLVM_stats_lines(_, _)
LLVM_stats_lines(f, decls) ==
    IF f.index >= Len(f.coverage) THEN Returns(decls)
    ELSE LET wrapped == IF Len(f.segments) > 0
                        THEN <<f.segments[Len(f.segments)]>>
                        ELSE f.wrapped
             segments == take_line(f.coverage, f.index, f.line)
             r == _line_coverage_stats(segments, wrapped, f.line)
         IN IF r.exc # "none" THEN Raises(decls, r.exc)
            ELSE LLVM_stats_lines([f EXCEPT !.wrapped = wrapped,
                                            !.segments = segments,
                                            !.index = @ + Len(segments),
                                            !.line = @ + 1],
                                  LLVM_stats_line(decls, r.obj))

\* the frame of LLVM.stats before its loops: the file entries of all
\* exports of the document, then the function entries of all exports
LLVM_stats(version, files, fns) ==
    [tool |-> "LLVM", version |-> version, files |-> files,
     functions |-> fns, index |-> 0, result |-> EmptyMap]

\* one turn of the loop over the file entries
LLVM_stats_on_file(result, file) ==
    IF "filename" \notin DOMAIN file THEN Returns(result)
    ELSE LET r == LLVM_stats_lines(_line_coverage_iterator(file.segments), <<>>)
         IN IF r.exc # "none" THEN Raises(result, r.exc)
            ELSE Returns((file.filename :> FileInfo(<<>>, r.obj)) @@ result)

\* one turn of the loop over the function entries
LLVM_stats_on_function(result, function) ==
    IF "count" \notin DOMAIN function \/ "name" \notin DOMAIN function
    THEN result
    ELSE LET ref == _function_encompassing_region(function.regions)
         IN IF ~ref.valid \/ function.filenames = <<>> THEN result
            ELSE LET filename == function.filenames[1]
                     func_decl == FunctionDecl(ref.start.line, ref.end.line,
                                               ref.start.col, ref.end.col,
                                               function.count, function.name,
                                               NoneStr)
                 IN IF filename \in DOMAIN result
                    THEN [result EXCEPT ![filename].functions =
                                            Append(@, func_decl)]
                    ELSE (filename :> FileInfo(<<func_decl>>, <<>>)) @@ result

\* records of one intermediate file, and line elements of one class
MaxRecords == 3

Records ==
    {Record(FALSE, "", <<>>),
     Record(TRUE, "version", <<"2">>),
     Record(TRUE, "file", <<"/src/a.cpp">>),
     Record(TRUE, "file", <<"b.cpp">>),
     Record(TRUE, "function", <<"1", "2", "5", "f">>),
     Record(TRUE, "function", <<"1", "5", "f">>),
     Record(TRUE, "function", <<"x", "2", "5", "f">>),
     Record(TRUE, "lcount", <<"1", "5", "0">>),
     Record(TRUE, "lcount", <<" 2", "0", "1">>),
     Record(TRUE, "lcount", <<"1", "5">>),
     Record(TRUE, "lcount", <<"2", "x", "0">>)}

AttribTexts == {"1", "5", "x"}

Attribs ==
    UNION {[keys -> AttribTexts] : keys \in SUBSET {"number", "hits"}}

\* classes of a tree: with and without filename and lines element, with no
\* line element, with a well-formed and with a malformed one
MaxClasses == 2

Classes ==
    {[lines |-> <<>>], [filename |-> "/src/a.cpp"]}
    \cup {[filename |-> name, lines |-> class_lines] :
            name \in {"/src/a.cpp", "/src/b.cpp"},
            class_lines \in {<<>>,
                             <<[number |-> "1", hits |-> "5"]>>,
                             <<[number |-> "5", hits |-> "1"],
                               [number |-> "1", hits |-> "1"]>>,
                             <<[number |-> "x", hits |-> "1"]>>}}

\* regions of a function entry: start and end position, count, file id,
\* expanded file id and kind; with a file id or a kind other than zero,
\* and with seven fields only
MaxRegions == 2

TextPositions == {TextPos(1, 5), TextPos(2, 1), TextPos(2, 5)}

Regions ==
    UNION {{<<s.line, s.col, e.line, e.col, 5, 0, 0, 0>>,
            <<s.line, s.col, e.line, e.col, 5, 1, 0, 0>>,
            <<s.line, s.col, e.line, e.col, 5, 0, 0, 1>>,
            <<s.line, s.col, e.line, e.col, 5, 0, 0>>} :
              s \in TextPositions, e \in TextPositions}

RegionLists == UNION {[1..n -> Regions] : n \in 0..MaxRegions}

\* file entries of an export: without a filename, without segments, with
\* segments that map lines 2 and 3, with segments that map line 2 with no
\* hit, and with a mapped first line
MaxEntries == 2

SegmentSamples ==
    {<<>>,
     <<CoverageSegment(1, 1, 5, TRUE, TRUE, FALSE),
       CoverageSegment(3, 1, 0, FALSE, FALSE, FALSE)>>,
     <<CoverageSegment(1, 1, 0, TRUE, TRUE, FALSE),
       CoverageSegment(2, 1, 0, FALSE, FALSE, FALSE)>>,
     <<CoverageSegment(1, 1, 0, FALSE, FALSE, FALSE),
       CoverageSegment(1, 1, 5, TRUE, TRUE, FALSE)>>}

FileEntries ==
    {[segments |-> <<>>]}
    \cup {[filename |-> name, segments |-> segments] :
            name \in {"/src/a.cpp", "/src/b.cpp"}, segments \in SegmentSamples}

FunctionEntry(regions) ==
    [count |-> 5, name |-> "f", filenames |-> <<"/src/a.cpp">>,
     regions |-> regions]

OneRegion == <<<<1, 5, 2, 5, 5, 0, 0, 0>>>>

\* function entries without count, without name, without file, of a file
\* that has no file entry, and of the file of the file entries
FunctionEntries ==
    {[name |-> "f", filenames |-> <<"/src/a.cpp">>, regions |-> OneRegion],
     [count |-> 5, filenames |-> <<"/src/a.cpp">>, regions |-> OneRegion],
     [count |-> 5, name |-> "f", filenames |-> <<>>, regions |-> OneRegion],
     [count |-> 0, name |-> "g", filenames |-> <<"/src/c.cpp", "/src/a.cpp">>,
      regions |-> OneRegion],
     FunctionEntry(OneRegion)}

InitParse ==
    /\ pc = "parse"
    /\ ExcludesIdle
    /\ \/ \E n \in 0..MaxRecords :
             \/ \E file \in [1..n -> Records] : parser = GCOV8_stats(file)
             \/ \E class_lines \in [1..n -> Attribs] :
                   parser = CoberturaXML_stats(
                                <<[filename |-> "/src/a.cpp",
                                   lines |-> class_lines]>>)
       \/ \E n \in 0..MaxClasses :
             \E classes \in [1..n -> Classes] :
                parser = CoberturaXML_stats(classes)
       \/ \E regions \in RegionLists,
             files \in {<<>>, <<[filename |-> "/src/a.cpp", segments |-> <<>>]>>} :
             parser = LLVM_stats(2, files, <<FunctionEntry(regions)>>)
       \/ \E n \in 0..MaxEntries, version \in {2, 3} :
             \E files \in [1..n -> FileEntries],
                fns \in {<<>>} \cup {<<function>> : function \in FunctionEntries} :
                parser = LLVM_stats(version, files, fns)
    /\ aggregate = Idle
    /\ sweep = Idle
    /\ summary = Idle
    /\ run = Idle

GCOV8_stats_line ==
    /\ pc = "parse"
    /\ parser.tool = "GCOV8"
    /\ parser.index < Len(parser.input)
    /\ LET r == GCOV8_stats_on(parser, parser.input[parser.index + 1])
       IN /\ parser' = [r.obj EXCEPT !.index = @ + 1]
          /\ pc' = IF r.exc = "none" THEN "parse" ELSE r.exc
    /\ UNCHANGED <<src, builder, reducer_vars, aggregate, sweep, summary, run>>

\* the file is read to its end: the last FileInfo is stored and the result
\* returned
GCOV8_stats_return ==
    /\ pc = "parse"
    /\ parser.tool = "GCOV8"
    /\ parser.index = Len(parser.input)
    /\ parser' = store_file(parser)
    /\ pc' = "parsed"
    /\ UNCHANGED <<src, builder, reducer_vars, aggregate, sweep, summary, run>>

CoberturaXML_stats_line ==
    /\ pc = "parse"
    /\ parser.tool = "CoberturaXML"
    /\ parser.index < Len(parser.input)
    /\ LET r == CoberturaXML_stats_on(parser, parser.input[parser.index + 1])
       IN /\ parser' = [r.obj EXCEPT !.index = @ + 1]
          /\ pc' = IF r.exc = "none" THEN "parse" ELSE r.exc
    /\ UNCHANGED <<src, builder, reducer_vars, aggregate, sweep, summary, run>>

\* the line elements of the class at hand are used up: the class is stored
\* and the next one taken up
CoberturaXML_stats_class ==
    /\ pc = "parse"
    /\ parser.tool = "CoberturaXML"
    /\ parser.index = Len(parser.input)
    /\ parser.klass < Len(parser.classes)
    /\ parser' = cobertura_class(cobertura_store(parser),
                                 parser.classes[parser.klass + 1])
    /\ UNCHANGED <<pc, src, builder, reducer_vars, aggregate, sweep, summary, run>>

\* the line elements of the last class are used up: the class is stored
\* and the result returned
CoberturaXML_stats_return ==
    /\ pc = "parse"
    /\ parser.tool = "CoberturaXML"
    /\ parser.index = Len(parser.input)
    /\ parser.klass = Len(parser.classes)
    /\ parser' = cobertura_store(parser)
    /\ pc' = "parsed"
    /\ UNCHANGED <<src, builder, reducer_vars, aggregate, sweep, summary, run>>

\* a document whose version is not 2: stats returns None
LLVM_stats_unsupported ==
    /\ pc = "parse"
    /\ parser.tool = "LLVM"
    /\ parser.version # 2
    /\ pc' = "returned None"
    /\ UNCHANGED <<parser, src, builder, reducer_vars, aggregate, sweep, summary, run>>

\* one turn of the loop over the file entries, sweep included
LLVM_stats_file ==
    /\ pc = "parse"
    /\ parser.tool = "LLVM"
    /\ parser.version = 2
    /\ parser.index < Len(parser.files)
    /\ LET r == LLVM_stats_on_file(parser.result, parser.files[parser.index + 1])
       IN /\ parser' = [parser EXCEPT !.result = r.obj, !.index = @ + 1]
          /\ pc' = IF r.exc = "none" THEN "parse" ELSE r.exc
    /\ UNCHANGED <<src, builder, reducer_vars, aggregate, sweep, summary, run>>

\* one turn of the loop over the function entries
LLVM_stats_function ==
    /\ pc = "parse"
    /\ parser.tool = "LLVM"
    /\ parser.version = 2
    /\ parser.index >= Len(parser.files)
    /\ parser.index < Len(parser.files) + Len(parser.functions)
    /\ parser' =
         [parser EXCEPT
            !.result = LLVM_stats_on_function(
                           @, parser.functions[parser.index - Len(parser.files) + 1]),
            !.index = @ + 1]
    /\ UNCHANGED <<pc, src, builder, reducer_vars, aggregate, sweep, summary, run>>

LLVM_stats_return ==
    /\ pc = "parse"
    /\ parser.tool = "LLVM"
    /\ parser.version = 2
    /\ parser.index = Len(parser.files) + Len(parser.functions)
    /\ pc' = "parsed"
    /\ UNCHANGED <<parser, src, builder, reducer_vars, aggregate, sweep, summary, run>>

NextParse ==
    \/ GCOV8_stats_line
    \/ GCOV8_stats_return
    \/ CoberturaXML_stats_line
    \/ CoberturaXML_stats_class
    \/ CoberturaXML_stats_return
    \/ LLVM_stats_unsupported
    \/ LLVM_stats_file
    \/ LLVM_stats_function
    \/ LLVM_stats_return

SpecParse == InitParse /\ [][NextParse]_vars

\* ------------------------------------------------------ the run of tool()

\* a finished subprocess: the program, its exit code, its captured stderr
Completed(program, returncode, err) ==
    [program |-> program, returncode |-> returncode, err |-> err]

\* the frame of tool() when it calls cov_tool.preprocess(): the adapter,
\* what preprocess finds in bin_dir, what lies in int_dir, and nothing
\* invoked, printed, parsed or written yet
new_run(cov_tool, gcno_dirs, raw, execs, present) ==
    [cov_tool |-> cov_tool, gcno_dirs |-> gcno_dirs, raw |-> raw,
     execs |-> execs, intermediate |-> present, invoked |-> <<>>,
     stderr |-> <<>>, parsed |-> 0, written |-> FALSE, status |-> None]

\* a check that lets every exit code pass
check_returncode_ignored(r, p) ==
    Returns([r EXCEPT !.invoked = Append(@, p)])

\* the subprocess p has completed. if p.returncode: print(err,
\* file=sys.stderr); print("error:", p.returncode, file=sys.stderr);
\* sys.exit(1)
check_returncode(r, p) ==
    IF p.returncode # 0
    THEN Raises([r EXCEPT !.invoked = Append(@, p),
                          !.stderr = @ \o <<p.err, <<"error:", p.returncode>>>>,
                          !.status = 1],
                "SystemExit")
    ELSE Returns([r EXCEPT !.invoked = Append(@, p)])

\* the tool has left a file with the adapter's extension in int_dir
wrote_intermediate(c) ==
    IF c.exc = "none" THEN Returns([c.obj EXCEPT !.intermediate = @ + 1]) ELSE c

\* directories with .gcno files, test executables, files already in int_dir
MaxDirs == 2
MaxExecs == 2
MaxPresent == 1

\* exit codes of the external tools
ReturnCodes == {0, 1, 2}

InitRun ==
    /\ pc = "preprocess"
    /\ ExcludesIdle
    /\ \E present \in 0..MaxPresent :
          \/ \E gcno_dirs \in 0..MaxDirs :
                run = new_run("gcov", gcno_dirs, FALSE, 0, present)
          \/ \E raw \in BOOLEAN, execs \in 0..MaxExecs :
                run = new_run("llvm", 0, raw, execs, present)
          \/ run = new_run("cobertura", 0, FALSE, 0, present)
    /\ aggregate = Idle
    /\ sweep = Idle
    /\ summary = Idle
    /\ parser = Idle

run_others == <<src, builder, reducer_vars, aggregate, sweep, summary, parser>>

\* Base.preprocess: gcov is run for the next directory
Base_preprocess_gcov ==
    /\ pc = "preprocess"
    /\ run.cov_tool = "gcov"
    /\ Len(run.invoked) < run.gcno_dirs
    /\ \E returncode \in ReturnCodes :
          LET p == Completed("gcov", returncode, <<"stderr", Len(run.invoked) + 1>>)
              c == wrote_intermediate(check_returncode(run, p))
          IN /\ run' = c.obj
             /\ pc' = IF c.exc = "none" THEN "preprocess" ELSE c.exc
    /\ UNCHANGED run_others

Base_preprocess_return ==
    /\ pc = "preprocess"
    /\ run.cov_tool = "gcov"
    /\ Len(run.invoked) = run.gcno_dirs
    /\ pc' = "stats"
    /\ UNCHANGED <<run, run_others>>

\* LLVM.preprocess finds no .profraw file and returns
LLVM_preprocess_no_raw ==
    /\ pc = "preprocess"
    /\ run.cov_tool = "llvm"
    /\ ~run.raw
    /\ pc' = "stats"
    /\ UNCHANGED <<run, run_others>>

\* LLVM.preprocess: the profile merge
LLVM_preprocess_merge ==
    /\ pc = "preprocess"
    /\ run.cov_tool = "llvm"
    /\ run.raw
    /\ run.invoked = <<>>
    /\ \E returncode \in ReturnCodes :
          LET p == Completed("merge", returncode, <<"stderr", 1>>)
              c == check_returncode(run, p)
          IN /\ run' = c.obj
             /\ pc' = IF c.exc = "none" THEN "preprocess" ELSE c.exc
    /\ UNCHANGED run_others

\* LLVM.preprocess: the export for the next executable, written to its
\* .profjson file
LLVM_preprocess_export ==
    /\ pc = "preprocess"
    /\ run.cov_tool = "llvm"
    /\ run.raw
    /\ run.invoked # <<>>
    /\ Len(run.invoked) - 1 < run.execs
    /\ \E returncode \in ReturnCodes :
          LET p == Completed("export", returncode, <<"stderr", Len(run.invoked) + 1>>)
              c == wrote_intermediate(check_returncode(run, p))
          IN /\ run' = c.obj
             /\ pc' = IF c.exc = "none" THEN "preprocess" ELSE c.exc
    /\ UNCHANGED run_others

LLVM_preprocess_return ==
    /\ pc = "preprocess"
    /\ run.cov_tool = "llvm"
    /\ run.raw
    /\ run.invoked # <<>>
    /\ Len(run.invoked) - 1 = run.execs
    /\ pc' = "stats"
    /\ UNCHANGED <<run, run_others>>

\* CoberturaXML.preprocess: pass
CoberturaXML_preprocess ==
    /\ pc = "preprocess"
    /\ run.cov_tool = "cobertura"
    /\ pc' = "stats"
    /\ UNCHANGED <<run, run_others>>

\* one turn of the loop over recurse(int_dir, ext): the file is parsed and
\* its FileInfo folded, or stats raises and the run ends with a traceback
tool_stats ==
    /\ pc = "stats"
    /\ run.parsed < run.intermediate
    /\ \/ /\ run' = [run EXCEPT !.parsed = @ + 1]
          /\ pc' = "stats"
       \/ /\ run' = [run EXCEPT !.parsed = @ + 1, !.status = 1,
                                !.stderr = Append(@, <<"Traceback", "ValueError">>)]
          /\ pc' = "ValueError"
    /\ UNCHANGED run_others

\* the files are reduced, the report is written to args.out, the summary
\* printed, and tool() returns
tool_write ==
    /\ pc = "stats"
    /\ run.parsed = run.intermediate
    /\ run' = [run EXCEPT !.written = TRUE, !.status = 0]
    /\ pc' = "returned"
    /\ UNCHANGED run_others

NextRun ==
    \/ Base_preprocess_gcov
    \/ Base_preprocess_return
    \/ LLVM_preprocess_no_raw
    \/ LLVM_preprocess_merge
    \/ LLVM_preprocess_export
    \/ LLVM_preprocess_return
    \/ CoberturaXML_preprocess
    \/ tool_stats
    \/ tool_write

SpecRun == InitRun /\ [][NextRun]_vars

\* ------------------------------------------------------------ properties

\* the line numbers a block list excludes
Covered(result) ==
    UNION {result[k].start..result[k].end : k \in 1..Len(result)}

Coalesced(result) ==
    /\ \A k \in 1..Len(result) : result[k].start <= result[k].end
    /\ \A k \in 1..(Len(result) - 1) : result[k].end + 1 < result[k + 1].start

\* the number on_line was given for the i-th piece of the text
Number(i) == EnumerateStart + i - 1

\* the marker of a piece that the chain STOP, END, START, LINE acts on
Marker(text) ==
    IF text.blank THEN "none"
    ELSE IF "STOP" \in text.found THEN "STOP"
    ELSE IF "END" \in text.found THEN "END"
    ELSE IF "START" \in text.found THEN "START"
    ELSE IF "LINE" \in text.found THEN "LINE"
    ELSE "none"

\* untagged, or tagged with an active tag
Honored(text) == text.tags = <<>> \/ has_any_marker(text.tags, builder.markers)

HonoredStartAt(i) == Marker(src[i]) = "START" /\ Honored(src[i])

HonoredLineAt(i) == Marker(src[i]) = "LINE" /\ Honored(src[i])

\* by the state machine of the design, the i-th piece is read in state inside
InsideBefore(i) ==
    \E j \in 1..(i - 1) :
        /\ HonoredStartAt(j)
        /\ \A k \in j..(i - 1) : Marker(src[k]) # "STOP"

\* the whole text read so far leaves the state machine inside
EndsInside == InsideBefore(Len(src) + 1)

LastStart == Max({j \in 1..Len(src) : HonoredStartAt(j)})

Warnings(what) ==
    {k \in 1..Len(builder.stderr) :
        builder.stderr[k].tag = "warning" /\ builder.stderr[k].what = what}

Messages(tag) == {k \in 1..Len(builder.stderr) : builder.stderr[k].tag = tag}

\* C1: whatever has been scanned, the block list is coalesced: every block
\* has start <= end, and each block ends at least two lines before the next
\* one starts.
C1_Coalesced == Coalesced(builder.result)

\* C1: a finished scan that excluded lines 0, 1, 2 and 4 of five and holds
\* exactly the two blocks (0,2) and (4,4).
C1_Witness ==
    /\ pc = "returned"
    /\ Len(src) = 5
    /\ builder.result = <<[start |-> 0, end |-> 2], [start |-> 4, end |-> 4]>>

\* C2: a text that leaves the scan inside is scanned to the end, after_lines
\* warns of the unmatched START, and no line from the last START on is
\* excluded unless it carries an honored LINE marker.
C2_UnterminatedStart ==
    (Len(src) >= 1 /\ EndsInside) =>
        /\ pc \in {"scan", "returned"}
        /\ pc = "returned" =>
            /\ Warnings("not matched with STOP") # {}
            /\ \A i \in LastStart..Len(src) :
                   Number(i) \in Covered(builder.result) => HonoredLineAt(i)

Scenario == <<Start, Code, Start, Code, Stop>>

IsPrefix(s, t) == Len(s) <= Len(t) /\ s = SubSeq(t, 1, Len(s))

\* C3: the scan of START, CODE, START, CODE, STOP runs to its end and leaves
\* the four lines after the first START excluded, one warning and one note,
\* and no block that starts at or covers the first START's line.
C3_DoubleStart ==
    /\ IsPrefix(src, Scenario) => pc \in {"scan", "returned"}
    /\ (src = Scenario /\ pc = "returned") =>
        /\ {Number(i) : i \in 2..5} \subseteq Covered(builder.result)
        /\ Cardinality(Messages("warning")) = 1
        /\ Cardinality(Messages("note")) = 1
        /\ Number(1) \notin Covered(builder.result)

\* C4: no on_line call and no after_lines call raises: the scan is either
\* still reading or has returned its result.
C4_NeverAborts == pc \in {"scan", "returned"}

\* C5: outside a START...STOP range a LINE marker excludes its line if and
\* only if it is untagged or lists an active tag (compared in lower case),
\* and a START marker that on_line has processed excludes its own line if
\* and only if it is untagged or lists an active tag.
C5_TagGating ==
    \A i \in 1..Len(src) :
        /\ (Marker(src[i]) = "LINE" /\ ~InsideBefore(i)) =>
              (Number(i) \in Covered(builder.result) <=> Honored(src[i]))
        /\ (Marker(src[i]) = "START" /\ ~InsideBefore(i)
                /\ i = Len(src) /\ pc = "scan") =>
              (Number(i) \in Covered(builder.result) <=> Honored(src[i]))

\* C6: the n-th piece of the text is line n: a blank n-th piece puts n into
\* the blank-line set, an honored LINE marker on the n-th piece excludes
\* line n, and no block bound or blank-line number is 0.
C6_OneBased ==
    /\ 0 \notin builder.empties \cup Covered(builder.result)
    /\ \A n \in 1..Len(src) :
          /\ src[n].blank => n \in builder.empties
          /\ (HonoredLineAt(n) /\ ~InsideBefore(n)) =>
                n \in Covered(builder.result)

\* C7: a call of exclude for a line that the block list excludes already
\* leaves the block list as it is.
C7_Idempotent ==
    [][Covered(builder'.result) = Covered(builder.result)
          => builder'.result = builder.result]_vars

\* the names of the functions a report lists
Listed(r) == {r.functions[i].name : i \in 1..Len(r.functions)}

\* the lines of a function's span, end_line standing for itself when given
\* and for start_line when not
Span(fn) ==
    fn.start_line..(IF "end_line" \in DOMAIN fn THEN fn.end_line ELSE fn.start_line)

EraseStep == pc \in {"handed", "erased"} /\ pc' \in {"erased", "erased again"}

CleanStep == pc # "cleaned" /\ pc' = "cleaned"

\* C8: erase_lines only removes lines and counts each removed line once in
\* lines.excluded; applied again it changes neither the map nor the
\* counters; clean_file_report counts each remaining line once in
\* lines.relevant and excludes none, and counts each function in exactly one
\* of functions.excluded and functions.relevant.
C8_AccountedOnce ==
    [][/\ EraseStep =>
            /\ DOMAIN lines' \subseteq DOMAIN lines
            /\ \A k \in DOMAIN lines' : lines'[k] = lines[k]
            /\ totals'.lines.excluded
                 = totals.lines.excluded
                   + Cardinality(DOMAIN lines \ DOMAIN lines')
            /\ totals'.lines.relevant = totals.lines.relevant
            /\ totals'.functions = totals.functions
       /\ (pc = "erased" /\ pc' = "erased again") =>
            lines' = lines /\ totals' = totals
       /\ CleanStep =>
            /\ lines' = lines
            /\ totals'.lines.excluded = totals.lines.excluded
            /\ totals'.lines.relevant
                 = totals.lines.relevant + Cardinality(DOMAIN lines)
            /\ Listed(report') \subseteq DOMAIN functions
            /\ Len(report'.functions) = Cardinality(Listed(report'))
            /\ totals'.functions.relevant
                 = totals.functions.relevant + Cardinality(Listed(report'))
            /\ totals'.functions.excluded
                 = totals.functions.excluded
                   + Cardinality(DOMAIN functions \ Listed(report'))]_vars

\* C8: a finished reduction in which a line of the map lay in both blocks of
\* the list and in the blank-line set and was counted once, beside a line
\* that was kept, and the one function was counted as relevant.
C8_Witness ==
    /\ pc = "cleaned"
    /\ Len(excluded_blocks) = 2
    /\ \E k \in DOMAIN lines0 \ DOMAIN lines :
          /\ k \in excluded_blocks[1].start..excluded_blocks[1].end
          /\ k \in excluded_blocks[2].start..excluded_blocks[2].end
          /\ k \in empties
    /\ totals.lines = [relevant |-> 1, covered |-> 1, excluded |-> 1]
    /\ totals.functions = [relevant |-> 1, covered |-> 1, excluded |-> 0]

\* C9: clean_file_report lists a function if and only if some line of its
\* span start_line..end_line is a key of the reduced line map, and
\* functions.excluded grows by one for every function it does not list.
C9_DropRule ==
    [][CleanStep =>
          /\ \A n \in DOMAIN functions :
                n \in Listed(report')
                    <=> Span(functions[n]) \cap DOMAIN lines # {}
          /\ totals'.functions.excluded
               = totals.functions.excluded
                 + Cardinality({n \in DOMAIN functions :
                                  Span(functions[n]) \cap DOMAIN lines = {}})]_vars

\* C9: a function spanning lines 1 to 2, both of them in the accumulated map
\* and both erased, is absent from the report and counted once as excluded.
C9_Witness ==
    /\ pc = "cleaned"
    /\ DOMAIN functions = {"f"}
    /\ Span(functions["f"]) = {1, 2}
    /\ {1, 2} \subseteq DOMAIN lines0
    /\ DOMAIN lines = {}
    /\ report.functions = <<>>
    /\ totals.functions = [relevant |-> 0, covered |-> 0, excluded |-> 1]

ScenarioMap == (1 :> 5) @@ (2 :> 0)

\* C10: clean_file_report adds the size of the reduced line map to
\* lines.relevant and the number of its lines with a hit count above 0 to
\* lines.covered, and likewise for the listed functions; the line map
\* {1:5, 2:0} with line 2 in the blank-line set and no block is reduced to
\* {1:5} with relevant = 1, covered = 1, excluded = 1.
C10_Totals ==
    /\ [][CleanStep =>
            /\ totals'.lines.relevant
                 = totals.lines.relevant + Cardinality(DOMAIN lines)
            /\ totals'.lines.covered
                 = totals.lines.covered
                   + Cardinality({k \in DOMAIN lines : lines[k] > 0})
            /\ totals'.functions.relevant
                 = totals.functions.relevant + Len(report'.functions)
            /\ totals'.functions.covered
                 = totals.functions.covered
                   + Cardinality({i \in 1..Len(report'.functions) :
                                    report'.functions[i].count > 0})]_vars
    /\ []((/\ pc = "cleaned"
           /\ lines0 = ScenarioMap
           /\ excluded_blocks = <<>>
           /\ empties = {2}) =>
              /\ lines = (1 :> 5)
              /\ totals.lines = [relevant |-> 1, covered |-> 1, excluded |-> 1])

\* C10: the scenario after clean_file_report.
C10_Witness ==
    /\ pc = "cleaned"
    /\ lines0 = ScenarioMap
    /\ excluded_blocks = <<>>
    /\ empties = {2}
    /\ lines = (1 :> 5)
    /\ totals.lines = [relevant |-> 1, covered |-> 1, excluded |-> 1]


\* every order in which n contributions can be folded
Orders(n) == {p \in [1..n -> 1..n] : \A i, j \in 1..n : p[i] = p[j] => i = j}

Reordered(infos, p) == [i \in 1..Len(infos) |-> infos[p[i]]]

\* the accumulators after folding a list of contributions, first to last
RECURSIVE append_all(_, _)
append_all(infos, acc) ==
    IF infos = <<>> THEN acc
    ELSE append_all(Tail(infos),
                    append_as(Head(infos).info, Head(infos).name,
                              FullPath(Head(infos).name), acc))

\* every LineDecl contributed for a path
RECURSIVE LinesFor(_, _)
LinesFor(infos, name) ==
    IF infos = <<>> THEN <<>>
    ELSE (IF Head(infos).name = name THEN Head(infos).info.lines ELSE <<>>)
         \o LinesFor(Tail(infos), name)

RECURSIVE SumOfCounts(_, _)
SumOfCounts(decls, number) ==
    IF decls = <<>> THEN 0
    ELSE (IF Head(decls).number = number THEN Head(decls).count ELSE 0)
         + SumOfCounts(Tail(decls), number)

LineMapsOf(coverage) == [name \in DOMAIN coverage |-> coverage[name][1]]

FunctionMapsOf(coverage) == [name \in DOMAIN coverage |-> coverage[name][2]]

\* C11: when all contributions are folded, the line map of every path holds
\* exactly the line numbers contributed for that path, each with the sum of
\* the hit counts of all LineDecl contributed for it, and folding the same
\* contributions in any other order gives the same line maps.
C11_LineSum ==
    pc = "aggregated" =>
        LET infos == aggregate.infos
        IN /\ \A name \in Names :
                 LET decls == LinesFor(infos, name)
                     numbers == {decls[k].number : k \in 1..Len(decls)}
                 IN IF name \in DOMAIN aggregate.coverage
                    THEN /\ DOMAIN aggregate.coverage[name][1] = numbers
                         /\ \A n \in numbers :
                               aggregate.coverage[name][1][n]
                                   = SumOfCounts(decls, n)
                    ELSE numbers = {}
           /\ \A p \in Orders(Len(infos)) :
                 LineMapsOf(append_all(Reordered(infos, p), NoCoverage).coverage)
                     = LineMapsOf(aggregate.coverage)

\* C11: three contributions for one path, two of them naming line 1 twice
\* or with different counts, folded to 12 hits for line 1 and 1 for line 2.
C11_Witness ==
    /\ pc = "aggregated"
    /\ Len(aggregate.infos) = 3
    /\ \A i \in 1..3 : aggregate.infos[i].name = "a.cpp"
    /\ aggregate.infos[1].info.lines = <<LineDecl(1, 5, FALSE), LineDecl(2, 1, FALSE)>>
    /\ aggregate.infos[2].info.lines = <<LineDecl(1, 1, FALSE)>>
    /\ aggregate.infos[3].info.lines = <<LineDecl(1, 1, FALSE), LineDecl(1, 5, FALSE)>>
    /\ aggregate.coverage["a.cpp"][1] = (1 :> 12) @@ (2 :> 1)

\* C12: when all contributions are folded, folding the same contributions
\* in any other order gives the same function maps, equal in every field of
\* every record.
C12_FunctionsCommute ==
    pc = "aggregated" =>
        \A p \in Orders(Len(aggregate.infos)) :
            FunctionMapsOf(append_all(Reordered(aggregate.infos, p),
                                      NoCoverage).coverage)
                = FunctionMapsOf(aggregate.coverage)


\* the segments of a list that lie on a line
SegmentsOn(coverage, line) == {i \in 1..Len(coverage) : coverage[i].line = line}

\* the last segment of the nearest earlier line that has segments
WrappedBefore(coverage, line) ==
    coverage[Max({i \in 1..Len(coverage) : coverage[i].line < line})]

\* C13: for a non-empty segment list ordered by line, from line a to line b,
\* the sweep raises nothing, its k-th entry is for line a + k - 1 and none is
\* for a line after b, it stops after b - a + 1 entries, and the entry of a
\* line without segments has the count of the wrapped segment if that has a
\* count and no execution count otherwise.
C13_SweepTotality ==
    (sweep.coverage # <<>> /\ OrderedByLine(sweep.coverage)) =>
        LET coverage == sweep.coverage
            a == coverage[1].line
            b == coverage[Len(coverage)].line
        IN /\ pc \in {"sweep", "StopIteration"}
           /\ Len(sweep.yielded) <= b - a + 1
           /\ \A k \in 1..Len(sweep.yielded) :
                 /\ sweep.yielded[k].line = a + k - 1
                 /\ SegmentsOn(coverage, a + k - 1) = {} =>
                       sweep.yielded[k].execution_count
                           = (IF WrappedBefore(coverage, a + k - 1).has_count
                              THEN WrappedBefore(coverage, a + k - 1).count
                              ELSE None)
           /\ pc = "StopIteration" => Len(sweep.yielded) = b - a + 1


\* C14: the coverage array clean_file_report builds is as long as the
\* larger of the declared line count and the highest line number left in
\* the reduced line map (the declared line count when the map is empty),
\* holds the hit count of every line n of the map at index n - 1, which is
\* place n of the sequence, and None at every other index.
C14_CoverageArray ==
    pc = "cleaned" =>
        /\ Len(report.coverage) = Max({line_count} \cup DOMAIN lines)
        /\ \A n \in 1..Len(report.coverage) :
              report.coverage[n] = (IF n \in DOMAIN lines THEN lines[n] ELSE None)
        /\ DOMAIN lines \subseteq 1..Len(report.coverage)


\* the hundredths a read percent stands for
InHundredths(d) == d.whole * 100 + d.decimals

\* C15: a percent read from stats with 0 <= covered <= relevant and
\* relevant > 0 is n / 100 for the integer n nearest to
\* covered * 10000 / relevant, the upper one when two are equally near
\* (n - 1/2 <= covered * 10000 / relevant < n + 1/2), it lies between 0 and
\* 100, and it is 33.33 for covered = 1, relevant = 3; read from stats with
\* relevant = 0 it is 0; reading it never raises.
C15_PercentRounding ==
    pc # "counted" =>
        LET covered == summary.stats.covered
            relevant == summary.stats.relevant
            n == InHundredths(summary.percent)
        IN /\ pc = "read"
           /\ summary.percent.decimals \in 0..99
           /\ relevant > 0 =>
                 /\ (2 * n - 1) * relevant <= 2 * covered * 10000
                 /\ 2 * covered * 10000 < (2 * n + 1) * relevant
                 /\ 0 <= n /\ n <= 100 * 100
           /\ (covered = 1 /\ relevant = 3) =>
                 summary.percent = [whole |-> 33, decimals |-> 33]
           /\ relevant = 0 => n = 0

\* C15: 1 of 32 is 3.125 percent, half way between 3.12 and 3.13, and was
\* read as 3.13.
C15_Witness ==
    /\ pc = "read"
    /\ summary.stats.covered = 1
    /\ summary.stats.relevant = 32
    /\ summary.percent = [whole |-> 3, decimals |-> 13]


Numeric(text) == int(text).exc = "none"

\* a function: or lcount: record with the wrong number of fields or with a
\* field that is no number
MalformedRecord(record) ==
    /\ record.colon
    /\ \/ /\ record.tag = "function"
          /\ \/ Len(record.fields) # 4
             \/ \E k \in 1..3 : k <= Len(record.fields) /\ ~Numeric(record.fields[k])
       \/ /\ record.tag = "lcount"
          /\ \/ Len(record.fields) # 3
             \/ \E k \in 1..3 : k <= Len(record.fields) /\ ~Numeric(record.fields[k])

\* a line element whose number or hits attribute is missing or no number
MalformedAttrib(attrib) ==
    \E key \in {"number", "hits"} :
        key \notin DOMAIN attrib \/ ~Numeric(attrib[key])

IsFileRecord(record) == record.colon /\ record.tag = "file"

\* the record at i belongs to a file: record, and no later file: record
\* names the same file
KeptSection(input, i) ==
    /\ \E j \in 1..(i - 1) : IsFileRecord(input[j])
    /\ LET j == Max({k \in 1..(i - 1) : IsFileRecord(input[k])})
       IN \A k \in (j + 1)..Len(input) :
             IsFileRecord(input[k]) => input[k].fields # input[j].fields

SectionName(input, i) ==
    resolve(input[Max({k \in 1..(i - 1) : IsFileRecord(input[k])})].fields[1])

Elements(seq) == {seq[k] : k \in 1..Len(seq)}

\* the well-formed line elements of a class
GoodLines(klass) ==
    IF {"filename", "lines"} \subseteq DOMAIN klass
    THEN {k \in 1..Len(klass.lines) : ~MalformedAttrib(klass.lines[k])}
    ELSE {}

\* the classes that have a well-formed line element
Stored(classes) == {c \in 1..Len(classes) : GoodLines(classes[c]) # {}}

\* the last of them that names a file
LastStored(classes, name) ==
    classes[Max({c \in Stored(classes) : classes[c].filename = name})]

\* C16: no record of the text counter format and no line element of the
\* tree format makes stats raise; when stats has returned, every
\* well-formed lcount: and function: record of a file's last section is in
\* the FileInfo returned for that file, and the FileInfo of a class holds
\* exactly the LineDecl of its well-formed line elements.
C16_MalformedSkipped ==
    /\ parser.tool \in {"GCOV8", "CoberturaXML"} => pc \in {"parse", "parsed"}
    /\ (pc = "parsed" /\ parser.tool = "GCOV8") =>
          \A i \in 1..Len(parser.input) :
             LET record == parser.input[i]
             IN (/\ record.colon
                 /\ record.tag \in {"function", "lcount"}
                 /\ ~MalformedRecord(record)
                 /\ KeptSection(parser.input, i)) =>
                   /\ SectionName(parser.input, i) \in DOMAIN parser.result
                   /\ LET info == parser.result[SectionName(parser.input, i)]
                      IN IF record.tag = "lcount"
                         THEN \E decl \in Elements(info.lines) :
                                 /\ decl.number = int(record.fields[1]).obj
                                 /\ decl.count = int(record.fields[2]).obj
                         ELSE \E decl \in Elements(info.functions) :
                                 /\ decl.start_line = int(record.fields[1]).obj
                                 /\ decl.end_line = int(record.fields[2]).obj
                                 /\ decl.execution_count = int(record.fields[3]).obj
                                 /\ decl.name = record.fields[4]
    /\ (pc = "parsed" /\ parser.tool = "CoberturaXML") =>
          /\ DOMAIN parser.result
               = {parser.classes[c].filename : c \in Stored(parser.classes)}
          /\ \A name \in DOMAIN parser.result :
                LET klass == LastStored(parser.classes, name)
                    good == GoodLines(klass)
                IN /\ Len(parser.result[name].lines) = Cardinality(good)
                   /\ Elements(parser.result[name].lines)
                        = {LineDecl(int(klass.lines[k].number).obj,
                                    int(klass.lines[k].hits).obj, FALSE) :
                              k \in good}


\* the external tools that exited non-zero
Failed == {k \in 1..Len(run.invoked) : run.invoked[k].returncode # 0}

\* C17: in every state of a run in which an external tool of preprocess has
\* exited non-zero, that tool is the last one invoked, the run has ended
\* with status 1, the tool's captured stderr has been printed, no
\* intermediate file has been parsed and the report has not been written;
\* and a run in which no tool has failed is not ended by preprocess.
C17_ToolFailureFatal ==
    /\ \A k \in Failed :
          /\ k = Len(run.invoked)
          /\ pc = "SystemExit"
          /\ run.status = 1
          /\ \E i \in 1..Len(run.stderr) : run.stderr[i] = run.invoked[k].err
          /\ run.parsed = 0
          /\ ~run.written
    /\ Failed = {} => pc # "SystemExit"

\* C17: a run whose profile merge and first export succeeded and whose
\* second export exited non-zero: it has ended with status 1 and the
\* export's stderr printed, with the first export's file unparsed and the
\* report unwritten.
C17_Witness ==
    /\ pc = "SystemExit"
    /\ run.cov_tool = "llvm"
    /\ Len(run.invoked) = 3
    /\ run.invoked[1].returncode = 0
    /\ run.invoked[2].returncode = 0
    /\ run.invoked[3].returncode = 2
    /\ run.intermediate >= 1
    /\ run.parsed = 0
    /\ ~run.written
    /\ run.status = 1
    /\ run.stderr = <<run.invoked[3].err, <<"error:", 2>>>>


\* the honored START that the state machine of the design refers to when
\* it reads the j-th piece
PreviousStart(j) == Max({i \in 1..(j - 1) : HonoredStartAt(i)})

\* C18: every honored START is processed by on_line, and when on_line has
\* just processed an honored START that was read inside, no line from the
\* previous START's line up to the line before is excluded unless it
\* carries an honored LINE marker, the state is inside and the start
\* reference is the new START's line.
C18_DoubleStartRollback ==
    \A j \in 1..Len(src) :
        HonoredStartAt(j) =>
            /\ pc \in {"scan", "returned"}
            /\ (InsideBefore(j) /\ j = Len(src) /\ pc = "scan") =>
                  /\ \A i \in PreviousStart(j)..(j - 1) :
                        Number(i) \in Covered(builder.result) => HonoredLineAt(i)
                  /\ builder.inside_exclude
                  /\ builder.last_start.line_no = Number(j)

\* C19: whatever text holds a non-blank line with an honored LINE marker
\* and no STOP, END or START marker, the scan of that text returns a
\* result, and the line is inside an excluded block of it.
C19_LineSurvives ==
    \A i \in 1..Len(src) :
        HonoredLineAt(i) =>
            /\ pc \in {"scan", "returned"}
            /\ pc = "returned" => Number(i) \in Covered(builder.result)

\* a START or LINE marker qualified by tags of which none is active
UnmatchedTags(text) ==
    /\ Marker(text) \in {"START", "LINE"}
    /\ text.tags # <<>>
    /\ ~has_any_marker(text.tags, builder.markers)

\* C20: on_line, handed a line whose tag-qualified START or LINE marker
\* lists no active tag, returns with the inside/outside state and the
\* start reference as they were, and has excluded the line if and only if
\* the state is inside.
C20_UnmatchedTagIsNoMarker ==
    [][(Len(src') = Len(src) + 1 /\ UnmatchedTags(src'[Len(src')])) =>
          /\ pc' = "scan"
          /\ builder'.inside_exclude = builder.inside_exclude
          /\ builder'.last_start = builder.last_start
          /\ (Number(Len(src')) \in Covered(builder'.result)
                <=> builder.inside_exclude)]_vars

\* C21: after each line the state is inside exactly when an honored START
\* has been read since the last STOP; a STOP read inside is excluded
\* itself and leaves the state outside for the next line; and a non-blank
\* line without a marker that is read outside is not excluded.
C21_DeferredStop ==
    /\ (Len(src) >= 1 /\ pc # "returned") =>
          (builder.inside_exclude <=> EndsInside)
    /\ \A i \in 1..Len(src) :
          /\ (Marker(src[i]) = "STOP" /\ InsideBefore(i)) =>
                Number(i) \in Covered(builder.result)
          /\ (Marker(src[i]) = "none" /\ ~src[i].blank /\ ~InsideBefore(i)) =>
                Number(i) \notin Covered(builder.result)

\* C22: on_line, handed a blank line, returns with its number added to the
\* blank-line set and with the inside/outside state, the start reference,
\* the single-line buffer, the block list and the messages as they were;
\* and a line's number is in the blank-line set if and only if the line
\* is empty or whitespace-only.
C22_BlankLineFrame ==
    /\ [][(Len(src') = Len(src) + 1 /\ src'[Len(src')].blank) =>
             /\ pc' = "scan"
             /\ builder' =
                  [builder EXCEPT !.empties = @ \cup {Number(Len(src'))}]]_vars
    /\ [](\A i \in 1..Len(src) :
             Number(i) \in builder.empties <=> src[i].blank)

\* C22: two adjacent LINE lines, which leave one block and a non-empty
\* single-line buffer, then a blank line: the blank line's number is the
\* only one in the blank-line set, and block and buffer are as they were.
C22_Witness ==
    /\ pc = "scan"
    /\ src = <<Line, Line, Blank>>
    /\ builder.empties = {2}
    /\ builder.single_lines = <<1>>
    /\ builder.result = <<[start |-> 0, end |-> 1]>>
    /\ ~builder.inside_exclude

\* C23: the scan of START, END reads both lines; END read inside leaves
\* one warning that suggests STOP, the state inside and the END line
\* excluded. Whatever the text, there is one such warning for each END read
\* inside, an END read outside is not excluded, and on_line, handed a line
\* with END, leaves the inside/outside state, the start reference and the
\* single-line buffer as they were.
C23_EndMarker ==
    /\ [](/\ IsPrefix(src, <<Start, End>>) => pc \in {"scan", "returned"}
          /\ (src = <<Start, End>> /\ pc = "scan") =>
                /\ builder.inside_exclude
                /\ Number(2) \in Covered(builder.result)
          /\ Cardinality(Warnings("did you mean STOP")) =
                Cardinality({i \in 1..Len(src) :
                                Marker(src[i]) = "END" /\ InsideBefore(i)})
          /\ \A i \in 1..Len(src) :
                (Marker(src[i]) = "END" /\ ~InsideBefore(i)) =>
                    Number(i) \notin Covered(builder.result))
    /\ [][(Len(src') = Len(src) + 1 /\ Marker(src'[Len(src')]) = "END") =>
             /\ pc' = "scan"
             /\ builder'.inside_exclude = builder.inside_exclude
             /\ builder'.last_start = builder.last_start
             /\ builder'.single_lines = builder.single_lines]_vars

\* erase_lines applied to the map as it was handed over
FirstErase == pc = "handed" /\ pc' = "erased"

\* C24: after erase_lines no line number inside an excluded block is a key
\* of the line map, whatever its hit count was, and lines.excluded has
\* grown by one for each key that lay inside a block, and by one more for
\* each key removed outside the blocks.
C24_HardRemoval ==
    [][FirstErase =>
          /\ Covered(excluded_blocks) \cap DOMAIN lines' = {}
          /\ totals'.lines.excluded
               = totals.lines.excluded
                 + Cardinality(DOMAIN lines \cap Covered(excluded_blocks))
                 + Cardinality((DOMAIN lines \ DOMAIN lines')
                                   \ Covered(excluded_blocks))]_vars

\* C24: a map with a line that was hit and a line that was not, both inside
\* the one excluded block and neither blank: erase_lines has removed both
\* and counted two excluded lines.
C24_Witness ==
    /\ pc = "erased"
    /\ lines0 = (1 :> 5) @@ (2 :> 0)
    /\ excluded_blocks = <<[start |-> 1, end |-> 2]>>
    /\ empties = {}
    /\ lines = EmptyMap
    /\ totals.lines.excluded = 2

\* the blank lines that are keys of the map with a hit count of zero
BlankUnhit == {k \in empties \cap DOMAIN lines : lines[k] = 0}

\* C25 as stated: after erase_lines no line of the blank-line set is a key
\* of the line map, whatever its hit count was, and with no excluded block
\* the map has lost exactly the blank lines it held and lines.excluded has
\* grown by their number.
C25_SoftRemovalAnyCount ==
    [][FirstErase =>
          /\ empties \cap DOMAIN lines' = {}
          /\ excluded_blocks = <<>> =>
                /\ DOMAIN lines' = DOMAIN lines \ empties
                /\ totals'.lines.excluded
                     = totals.lines.excluded
                       + Cardinality(empties \cap DOMAIN lines)]_vars

\* C25, amended: after erase_lines a line of the blank-line set outside the
\* excluded blocks is a key of the line map if and only if it was one with
\* a hit count other than zero, and with no excluded block the map has
\* lost exactly the blank lines it held with a hit count of zero and
\* lines.excluded has grown by their number; a blank line that was no key
\* changes neither.
C25_SoftRemoval ==
    [][FirstErase =>
          /\ \A k \in empties \ Covered(excluded_blocks) :
                k \in DOMAIN lines' <=> (k \in DOMAIN lines /\ lines[k] # 0)
          /\ excluded_blocks = <<>> =>
                /\ DOMAIN lines' = DOMAIN lines \ BlankUnhit
                /\ \A k \in DOMAIN lines' : lines'[k] = lines[k]
                /\ totals'.lines.excluded
                     = totals.lines.excluded + Cardinality(BlankUnhit)]_vars

\* C25: blank lines 1 and 2 and no excluded block, line 1 hit five times
\* and line 2 never: erase_lines has removed line 2 only and counted one
\* excluded line.
C25_Witness ==
    /\ pc = "erased"
    /\ lines0 = (1 :> 5) @@ (2 :> 0)
    /\ excluded_blocks = <<>>
    /\ empties = {1, 2}
    /\ lines = (1 :> 5)
    /\ totals.lines.excluded = 1

\* the generator is resumed and works on the segments of one line
SweepStep == pc = "sweep" /\ pc' # "StopIteration" /\ sweep' # sweep

\* the run of segments the step worked on, and the segment wrapped into it
Run == sweep'.segments

Wrapping == sweep'.wrapped

StartsOfRegion ==
    {i \in 1..Len(Run) : ~Run[i].is_gap /\ Run[i].has_count /\ Run[i].is_entry}

\* the mapping rule as the design states it
MappedByRule ==
    /\ ~(Len(Run) > 0 /\ Run[1].has_count /\ Run[1].is_entry)
    /\ \/ Wrapping # <<>> /\ Wrapping[1].has_count
       \/ StartsOfRegion # {}

Yielded == sweep'.yielded[Len(sweep'.yielded)]

C27_CountRule ==
    [][SweepStep =>
          /\ pc' = "sweep"
          /\ Yielded.execution_count # None =>
                Yielded.execution_count =
                    Max({IF Wrapping # <<>> THEN Wrapping[1].count ELSE 0}
                        \cup {Run[i].count : i \in StartsOfRegion})]_vars

\* C29: the sweep of the empty list yields nothing; while segments are
\* left, the next one lies on the sweep's line or on a later one, so that
\* the sweep reaches it; no entry is yielded for a line after the last line
\* that has a segment; and the sweep stops with every segment consumed.
C29_SweepTerminates ==
    LET coverage == sweep.coverage
    IN /\ coverage = <<>> => sweep.yielded = <<>>
       /\ (pc = "sweep" /\ sweep.index < Len(coverage)) =>
             coverage[sweep.index + 1].line >= sweep.line
       /\ \A k \in 1..Len(sweep.yielded) :
             sweep.yielded[k].line <= Max({coverage[i].line : i \in 1..Len(coverage)})
       /\ pc = "StopIteration" => sweep.index = Len(coverage)

\* a turn of the loop of LLVM.stats over the function entries, and the
\* entry it works on
FunctionStep ==
    /\ pc = "parse"
    /\ parser.tool = "LLVM"
    /\ parser'.index = parser.index + 1
    /\ parser.index >= Len(parser.files)

Function == parser.functions[parser.index - Len(parser.files) + 1]

\* the regions of the entry that have eight fields or more with a zero at
\* index 5 and at index 7, counted from 0
Qualifying ==
    {i \in 1..Len(Function.regions) :
        /\ Len(Function.regions[i]) >= 8
        /\ Function.regions[i][6] = 0
        /\ Function.regions[i][8] = 0}

\* (line, column) pairs in lexicographic order
LexLeq(p, q) == p[1] < q[1] \/ (p[1] = q[1] /\ p[2] <= q[2])

LexMin(S) == CHOOSE p \in S : \A q \in S : LexLeq(p, q)

LexMax(S) == CHOOSE p \in S : \A q \in S : LexLeq(q, p)

\* C28: for a function entry with count, name and file, LLVM.stats adds
\* nothing when no region of the entry qualifies, and otherwise adds one
\* FunctionDecl whose start is the least (line, column) start and whose
\* end is the greatest (line, column) end of the qualifying regions, in
\* lexicographic order, whatever the order of the regions in the list.
C28_FunctionRegion ==
    [][(/\ FunctionStep
        /\ {"count", "name"} \subseteq DOMAIN Function
        /\ Function.filenames # <<>>) =>
          LET name == Function.filenames[1]
              before == IF name \in DOMAIN parser.result
                        THEN parser.result[name].functions ELSE <<>>
              starts == {<<Function.regions[i][1], Function.regions[i][2]>> :
                            i \in Qualifying}
              ends == {<<Function.regions[i][3], Function.regions[i][4]>> :
                          i \in Qualifying}
          IN IF Qualifying = {} THEN parser'.result = parser.result
             ELSE /\ name \in DOMAIN parser'.result
                  /\ Len(parser'.result[name].functions) = Len(before) + 1
                  /\ LET decl == parser'.result[name].functions[Len(before) + 1]
                     IN /\ <<decl.start_line, decl.start_column>> = LexMin(starts)
                        /\ <<decl.end_line, decl.end_column>> = LexMax(ends)
                        /\ decl.execution_count = Function.count
                        /\ decl.name = Function.name]_vars

\* C28: a function entry with a region from (2,5) to (2,5) and one from
\* (2,1) to (2,1), in this order or the other: the one FunctionDecl starts
\* at line 2, column 1 and ends at line 2, column 5.
C28_Witness ==
    /\ pc = "parsed"
    /\ parser.tool = "LLVM"
    /\ Len(parser.functions) = 1
    /\ parser.functions[1].regions \in
          {<<<<2, 5, 2, 5, 5, 0, 0, 0>>, <<2, 1, 2, 1, 5, 0, 0, 0>>>>,
           <<<<2, 1, 2, 1, 5, 0, 0, 0>>, <<2, 5, 2, 5, 5, 0, 0, 0>>>>}
    /\ parser.result["/src/a.cpp"].functions
          = <<FunctionDecl(2, 2, 1, 5, 5, "f", NoneStr)>>

\* the LineDecl of the lcount: records from the k-th record up to the next
\* file: record
RECURSIVE SectionLines(_, _)
SectionLines(input, k) ==
    IF k > Len(input) \/ IsFileRecord(input[k]) THEN <<>>
    ELSE IF input[k].colon /\ input[k].tag = "lcount"
    THEN <<LineDecl(int(input[k].fields[1]).obj, int(input[k].fields[2]).obj,
                    int(input[k].fields[3]).obj # 0)>>
         \o SectionLines(input, k + 1)
    ELSE SectionLines(input, k + 1)

FileRecords(input) == {k \in 1..Len(input) : IsFileRecord(input[k])}

RecordName(record) == resolve(strip(record.fields[1]))

\* the file entries of a segment export that name a file
Named(files) == {k \in 1..Len(files) : "filename" \in DOMAIN files[k]}

====
